---- MODULE Spec2Model ----
(***************************************************************************)
(* Terminal tic-tac-toe (src/main.go): the board, the character dispatch   *)
(* of processInput, the win / draw / quit evaluation and the main loop     *)
(* with its terminal raw-mode setup and deferred restore.                  *)
(***************************************************************************)
EXTENDS Integers, FiniteSets, Sequences, TLC

\* newBoard(3, 3) in main
width == 3
height == 3

\* the zero rune of a freshly made []rune, and the two marks
Empty == "."
PlayerX == "X"
PlayerO == "O"
Marks == {PlayerX, PlayerO}
Runes == {Empty} \cup Marks

\* Runes the reader can deliver: the ten symbols processInput and
\* evalBoardState dispatch on, plus two they do not ('Q' and 'x').
MoveKeys == {"w", "W", "a", "A", "s", "S", "d", "D"}
Inputs == MoveKeys \cup {" ", "q", "Q", "x"}

Rows == 0 .. (height - 1)
Cols == 0 .. (width - 1)
Grids == [Rows -> [Cols -> Runes]]

VARIABLES
    grid,        \* b.grid[y][x]
    curX, curY,  \* b.curX, b.curY
    currPlayer,  \* b.currPlayer
    moveCount,   \* b.moveCount
    input,       \* the rune of the current loop iteration
    pc,          \* position of main
    raw,         \* terminal is in raw mode (term.MakeRaw done, not restored)
    cursorHidden,\* ESC[?25l printed and ESC[?25h not yet
    screen,      \* what the last printState drew
    banner,      \* message printed below the board since the last clear
    winner,      \* the player named by the "wins!" banner
    exitCode,    \* process exit status, -1 while running
    placed,      \* history: the last processInput wrote a mark
    lastMover,   \* history: the player whose mark was written last
    renders      \* history: printState calls since the last ReadRune

vars == <<grid, curX, curY, currPlayer, moveCount, input, pc, raw,
          cursorHidden, screen, banner, winner, exitCode, placed, lastMover,
          renders>>

boardVars == <<grid, curX, curY, currPlayer, moveCount>>

----------------------------------------------------------------------------
\* Pure helpers, written as the code computes them.

otherPlayerSame(p) == p

otherPlayer(p) == IF p = PlayerX THEN PlayerO ELSE PlayerX

switchPlayerStuck(p) == p

switchPlayer(p) == otherPlayer(p)

\* normalizeXY, one axis: the upper test first, then the lower one
normalizeNoClamp(v, dim) == v

normalizeWrap(v, dim) == (v + dim) % dim

normalize(v, dim) ==
    LET v1 == IF v >= dim THEN dim - 1 ELSE v
    IN  IF v1 < 0 THEN 0 ELSE v1

\* the cursor arithmetic of the four movement arms of processInput
stepY(in, y) ==
    CASE in \in {"w", "W"} -> y - 1
      [] in \in {"s", "S"} -> y + 1
      [] OTHER -> y

stepX(in, x) ==
    CASE in \in {"a", "A"} -> x - 1
      [] in \in {"d", "D"} -> x + 1
      [] OTHER -> x

\* the guard of the ' ' arm: the cell under the cursor is taken
cellTakenNever(g, x, y) == FALSE

cellTakenTransposed(g, x, y) == g[x][y] # Empty

cellTaken(g, x, y) == g[y][x] # Empty

\* b.grid[y][x] = p
setCell(g, x, y, p) == [g EXCEPT ![y][x] = p]

\* the inner xi loop of checkForWin for row yi / column yi
RECURSIVE rowColLoop(_, _, _, _, _)
rowColLoop(g, yi, xi, rowHasWinner, colHasWinner) ==
    IF xi >= width THEN <<rowHasWinner, colHasWinner>>
    ELSE rowColLoop(g, yi, xi + 1,
            IF g[yi][0] # g[yi][xi] \/ g[yi][0] = Empty
               THEN FALSE ELSE rowHasWinner,
            IF g[0][yi] # g[xi][yi] \/ g[0][yi] = Empty
               THEN FALSE ELSE colHasWinner)

\* the outer yi loop of checkForWin, with its early return
RECURSIVE winLoop(_, _, _, _)
winLoop(g, yi, diag1HasWinner, diag2HasWinner) ==
    IF yi >= height THEN diag1HasWinner \/ diag2HasWinner
    ELSE LET d1 == IF g[0][0] # g[yi][yi] \/ g[0][0] = Empty
                      THEN FALSE ELSE diag1HasWinner
             d2 == IF g[height - 1][0] # g[height - 1 - yi][yi]
                         \/ g[height - 1][0] = Empty
                      THEN FALSE ELSE diag2HasWinner
             rc == rowColLoop(g, yi, 0, TRUE, TRUE)
         IN  IF rc[1] \/ rc[2] THEN TRUE
             ELSE winLoop(g, yi + 1, d1, d2)

checkForWinNoAntiDiag(g) ==
    \/ \E y \in Rows : g[y][0] # Empty /\ \A x \in Cols : g[y][x] = g[y][0]
    \/ \E x \in Cols : g[0][x] # Empty /\ \A y \in Rows : g[y][x] = g[0][x]
    \/ g[0][0] # Empty /\ \A i \in Rows : g[i][i] = g[0][0]

checkForWinEmptyLines(g) ==
    \/ \E y \in Rows : \A x \in Cols : g[y][x] = g[y][0]
    \/ \E x \in Cols : \A y \in Rows : g[y][x] = g[0][x]
    \/ \A i \in Rows : g[i][i] = g[0][0]
    \/ \A i \in Rows : g[height - 1 - i][i] = g[height - 1][0]

checkForWin(g) == winLoop(g, 0, TRUE, TRUE)

\* isFull: row-major scan, false at the first zero cell
RECURSIVE fullLoop(_, _, _)
fullLoop(g, y, x) ==
    IF y >= height THEN TRUE
    ELSE IF x >= width THEN fullLoop(g, y + 1, 0)
    ELSE IF g[y][x] = Empty THEN FALSE
    ELSE fullLoop(g, y, x + 1)

isFullFirstCell(g) == g[0][0] # Empty

isFullByMoveCount(g) == moveCount = width * height

isFull(g) == fullLoop(g, 0, 0)

\* the arm of the switch in evalBoardState that is taken
evalBoardStateDrawFirst(g, in) ==
    CASE in = "q" -> "Quit"
      [] in # "q" /\ isFull(g) -> "Draw"
      [] in # "q" /\ ~isFull(g) /\ checkForWin(g) -> "Win"
      [] OTHER -> "Continue"

evalBoardStateAnyCaseQ(g, in) ==
    IF in \in {"q", "Q"} THEN "Quit"
    ELSE IF checkForWin(g) THEN "Win"
    ELSE IF isFull(g) THEN "Draw"
    ELSE "Continue"

evalBoardState(g, in) ==
    IF in = "q" THEN "Quit"
    ELSE IF checkForWin(g) THEN "Win"
    ELSE IF isFull(g) THEN "Draw"
    ELSE "Continue"

\* the value evalBoardState returns: true in the default arm only
continueGameOnDraw(arm) == arm \in {"Continue", "Draw"}

continueGameOnWin(arm) == arm \in {"Continue", "Win"}

continueGame(arm) == arm = "Continue"

\* the text evalBoardState prints in each arm
bannerOf(arm) ==
    CASE arm = "Quit" -> "Exiting..."
      [] arm = "Win" -> "wins!"
      [] arm = "Draw" -> "Draw!"
      [] OTHER -> ""

\* printState: one string per cell, and the "Current Player" line
renderCell(g, x, y, cx, cy) ==
    IF cx = x /\ cy = y /\ g[y][x] = Empty THEN "block"
    ELSE IF cx = x /\ cy = y /\ g[y][x] # Empty THEN "rev" \o g[y][x]
    ELSE IF g[y][x] = Empty THEN " "
    ELSE g[y][x]

render(g, cx, cy, p) ==
    [cells |-> [y \in Rows |-> [x \in Cols |-> renderCell(g, x, y, cx, cy)]],
     player |-> p]

newBoardOFirst ==
    [grid |-> [y \in Rows |-> [x \in Cols |-> Empty]],
     curX |-> 1, curY |-> 1, currPlayer |-> PlayerO, moveCount |-> 0]

newBoardCorner ==
    [grid |-> [y \in Rows |-> [x \in Cols |-> Empty]],
     curX |-> 0, curY |-> 0, currPlayer |-> PlayerX, moveCount |-> 0]

\* newBoard: zeroed grid, cursor at (1, 1), X to move
newBoard ==
    [grid |-> [y \in Rows |-> [x \in Cols |-> Empty]],
     curX |-> 1, curY |-> 1, currPlayer |-> PlayerX, moveCount |-> 0]

NoScreen == [cells |-> <<>>, player |-> Empty]

\* how main ends: log.Fatalf exits with status 1, a return from main with 0
exitStatusAlwaysZero(how) == 0

exitStatusOf(how) == IF how = "fatal" THEN 1 ELSE 0

----------------------------------------------------------------------------
\* The program.  The board is the one newBoard builds; main creates it
\* right after the terminal is configured and nothing reads it before.

Init ==
    /\ grid = newBoard.grid
    /\ curX = newBoard.curX
    /\ curY = newBoard.curY
    /\ currPlayer = newBoard.currPlayer
    /\ moveCount = newBoard.moveCount
    /\ input = "x"
    /\ pc = "configure"
    /\ raw = FALSE
    /\ cursorHidden = FALSE
    /\ screen = NoScreen
    /\ banner = ""
    /\ winner = Empty
    /\ exitCode = -1
    /\ placed = FALSE
    /\ lastMover = Empty
    /\ renders = 0

\* configureTerminal succeeds; main defers the restore, builds the board
\* and prints it once.
ConfigureOk ==
    /\ pc = "configure"
    /\ raw' = TRUE
    /\ cursorHidden' = TRUE
    /\ screen' = render(grid, curX, curY, currPlayer)
    /\ renders' = 1
    /\ pc' = "read"
    /\ UNCHANGED <<boardVars, input, banner, winner, exitCode, placed,
                   lastMover>>

\* term.MakeRaw fails: log.Fatalf, exit status 1, the mode was never changed
ConfigureFail ==
    /\ pc = "configure"
    /\ pc' = "exited"
    /\ banner' = "Error configuring terminal"
    /\ exitCode' = exitStatusOf("fatal")
    /\ UNCHANGED <<boardVars, input, raw, cursorHidden, screen, winner,
                   placed, lastMover, renders>>

\* reader.ReadRune delivers a rune
ReadRune ==
    /\ pc = "read"
    /\ \E r \in Inputs : input' = r
    /\ pc' = "process"
    /\ renders' = 0
    /\ UNCHANGED <<boardVars, raw, cursorHidden, screen, banner, winner,
                   exitCode, placed, lastMover>>

\* reader.ReadRune fails: log.Fatalf calls os.Exit(1), which runs no
\* deferred function
ReadFail ==
    /\ pc = "read"
    /\ pc' = "exited"
    /\ banner' = "Error reading input"
    /\ exitCode' = exitStatusOf("fatal")
    /\ UNCHANGED <<boardVars, input, raw, cursorHidden, screen, winner,
                   placed, lastMover, renders>>

\* b.processInput(input)
ProcessInput ==
    /\ pc = "process"
    /\ pc' = "print"
    /\ IF input = " "
       THEN IF cellTaken(grid, curX, curY)
            THEN \* "Cell already taken!" and return before normalizeXY
                 /\ banner' = "Cell already taken!"
                 /\ placed' = FALSE
                 /\ UNCHANGED <<grid, curX, curY, currPlayer, lastMover>>
            ELSE /\ grid' = setCell(grid, curX, curY, currPlayer)
                 /\ currPlayer' = switchPlayer(currPlayer)
                 /\ curX' = normalize(curX, width)
                 /\ curY' = normalize(curY, height)
                 /\ placed' = TRUE
                 /\ lastMover' = currPlayer
                 /\ UNCHANGED banner
       ELSE /\ curX' = normalize(stepX(input, curX), width)
            /\ curY' = normalize(stepY(input, curY), height)
            /\ placed' = FALSE
            /\ UNCHANGED <<grid, currPlayer, banner, lastMover>>
    /\ UNCHANGED <<moveCount, input, raw, cursorHidden, screen, winner,
                   exitCode, renders>>

\* the loop going on to evalBoardState without the printState call
PrintStateSkipped ==
    /\ pc = "print"
    /\ pc' = "eval"
    /\ UNCHANGED <<boardVars, input, raw, cursorHidden, screen, banner,
                   winner, exitCode, placed, lastMover, renders>>

\* b.printState(): clear the screen, draw the board
PrintState ==
    /\ pc = "print"
    /\ screen' = render(grid, curX, curY, currPlayer)
    /\ banner' = ""
    /\ renders' = renders + 1
    /\ pc' = "eval"
    /\ UNCHANGED <<boardVars, input, raw, cursorHidden, winner, exitCode,
                   placed, lastMover>>

\* b.evalBoardState(input) and the break of the loop
EvalBoardState ==
    /\ pc = "eval"
    /\ LET arm == evalBoardState(grid, input)
       IN  /\ banner' = bannerOf(arm)
           /\ winner' = IF arm = "Win" THEN otherPlayer(currPlayer)
                        ELSE winner
           /\ pc' = IF continueGame(arm) THEN "read" ELSE "return"
    /\ UNCHANGED <<boardVars, input, raw, cursorHidden, screen, exitCode,
                   placed, lastMover, renders>>

\* main returns: the deferred restoreFunc runs, exit status 0
MainReturn ==
    /\ pc = "return"
    /\ raw' = FALSE
    /\ cursorHidden' = FALSE
    /\ screen' = NoScreen
    /\ exitCode' = exitStatusOf("return")
    /\ pc' = "exited"
    /\ UNCHANGED <<boardVars, input, banner, winner, placed, lastMover,
                   renders>>

Next ==
    \/ ConfigureOk
    \/ ConfigureFail
    \/ ReadRune
    \/ ReadFail
    \/ ProcessInput
    \/ PrintState
    \/ EvalBoardState
    \/ MainReturn

Spec == Init /\ [][Next]_vars

----------------------------------------------------------------------------
\* checkForWin, isFull and evalBoardState as functions of an arbitrary
\* board and an arbitrary last input: every assignment of the cells, every
\* rune, either player to move, evaluated once.

InitEval ==
    /\ grid \in Grids
    /\ curX = newBoard.curX
    /\ curY = newBoard.curY
    /\ currPlayer \in Marks
    /\ moveCount = 0
    /\ input \in Inputs
    /\ pc = "eval"
    /\ raw = TRUE
    /\ cursorHidden = TRUE
    /\ screen = render(grid, curX, curY, currPlayer)
    /\ banner = ""
    /\ winner = Empty
    /\ exitCode = -1
    /\ placed = FALSE
    /\ lastMover = Empty
    /\ renders = 1

NextEval == EvalBoardState

SpecEval == InitEval /\ [][NextEval]_vars

----------------------------------------------------------------------------
\* Vocabulary of the properties, independent of the loops above.

Cells == Rows \X Cols

MarkCount(g) == Cardinality({c \in Cells : g[c[1]][c[2]] # Empty})
CountOf(g, p) == Cardinality({c \in Cells : g[c[1]][c[2]] = p})

\* the lines of the square board, each a set of <<row, column>>
Lines ==
    {{<<y, x>> : x \in Cols} : y \in Rows}
    \cup {{<<y, x>> : y \in Rows} : x \in Cols}
    \cup {{<<i, i>> : i \in Rows}}
    \cup {{<<height - 1 - i, i>> : i \in Rows}}

OwnsLine(g, p) == \E l \in Lines : \A c \in l : g[c[1]][c[2]] = p
HasLine(g) == \E p \in Marks : OwnsLine(g, p)
NoEmptyCell(g) == \A c \in Cells : g[c[1]][c[2]] # Empty

AntiDiag == {<<height - 1 - i, i>> : i \in Rows}
OnlyAntiDiag(g) ==
    \A l \in Lines : (\E p \in Marks : \A c \in l : g[c[1]][c[2]] = p)
                        <=> l = AntiDiag

----------------------------------------------------------------------------
\* C1: a space input with the cursor on an Empty cell always places: the
\* cell under the cursor becomes the mark of the player who was to move,
\* currPlayer becomes the other player, every other cell and the cursor
\* stay as they were.
C1_PlaceOnEmpty ==
    [][(pc = "process" /\ input = " " /\ grid[curY][curX] = Empty)
        => /\ grid'[curY][curX] = currPlayer
           /\ currPlayer' \in Marks \ {currPlayer}
           /\ \A c \in Cells :
                 c # <<curY, curX>> => grid'[c[1]][c[2]] = grid[c[1]][c[2]]
           /\ curX' = curX
           /\ curY' = curY
           /\ placed']_vars

C1_Witness ==
    /\ pc = "print"
    /\ input = " "
    /\ placed
    /\ MarkCount(grid) >= 2
    /\ grid[curY][curX] = PlayerO

\* C2: a space input with the cursor on an occupied cell is rejected: the
\* grid, currPlayer, moveCount and the cursor stay exactly as they were,
\* and the evaluation of that input continues the game.
C2_PlaceOnTaken ==
    [][/\ (pc = "process" /\ input = " " /\ grid[curY][curX] # Empty)
            => /\ grid' = grid
               /\ currPlayer' = currPlayer
               /\ moveCount' = moveCount
               /\ curX' = curX
               /\ curY' = curY
               /\ ~placed'
               /\ banner' = "Cell already taken!"
       /\ (pc = "eval" /\ input = " " /\ ~placed)
            => /\ pc' = "read"
               /\ exitCode' = -1
               /\ banner' = ""]_vars

C2_Witness ==
    /\ pc = "read"
    /\ input = " "
    /\ ~placed
    /\ grid[curY][curX] # Empty
    /\ \E y \in Rows, x \in Cols : grid[y][x] # Empty /\ grid[x][y] = Empty

\* C3: checkForWin is true iff some row, some column or one of the two
\* diagonals is all one mark, for every assignment of Empty, X, O to the
\* cells; it is false on the all-Empty board.
C3_CheckWinIffLine ==
    /\ checkForWin(grid) <=> HasLine(grid)
    /\ (\A c \in Cells : grid[c[1]][c[2]] = Empty) => ~checkForWin(grid)

C3_Witness ==
    /\ pc = "return"
    /\ input # "q"
    /\ banner = "wins!"
    /\ OnlyAntiDiag(grid)
    /\ ~NoEmptyCell(grid)

\* C4: whenever the loop ends with a Win, the player the banner names is
\* the player other than currPlayer, made the last placement (in this very
\* iteration) and owns a complete line; currPlayer is never named.
C4_WinnerIsLastMover ==
    banner = "wins!"
        => /\ winner \in Marks \ {currPlayer}
           /\ placed
           /\ winner = lastMover
           /\ grid[curY][curX] = winner
           /\ OwnsLine(grid, winner)
           /\ ~OwnsLine(grid, currPlayer)

C4_Witness ==
    /\ pc = "return"
    /\ banner = "wins!"
    /\ winner = PlayerO
    /\ currPlayer = PlayerX
    /\ OwnsLine(grid, PlayerO)

\* C5: evalBoardState decides in strict priority order, for every grid and
\* every last input: Quit on 'q' whatever the board; otherwise Win if a
\* line is complete, even on a full board; otherwise Draw if the board is
\* full; otherwise Continue.
C5_Expected ==
    IF input = "q" THEN <<"Exiting...", "return">>
    ELSE IF HasLine(grid) THEN <<"wins!", "return">>
    ELSE IF NoEmptyCell(grid) THEN <<"Draw!", "return">>
    ELSE <<"", "read">>

C5_OutcomePriority ==
    /\ evalBoardState(grid, input) =
          CASE input = "q" -> "Quit"
            [] input # "q" /\ HasLine(grid) -> "Win"
            [] input # "q" /\ ~HasLine(grid) /\ NoEmptyCell(grid) -> "Draw"
            [] OTHER -> "Continue"
    /\ pc # "eval" => <<banner, pc>> = C5_Expected

C5_Witness ==
    /\ pc = "return"
    /\ input = " "
    /\ NoEmptyCell(grid)
    /\ HasLine(grid)
    /\ banner = "wins!"

\* C6: after every input the cursor lies inside the grid:
\* 0 <= curX <= width-1 and 0 <= curY <= height-1.
C6_CursorInBounds ==
    /\ curX \in 0 .. (width - 1)
    /\ curY \in 0 .. (height - 1)

\* a left move processed while the cursor was drawn in column 0
C6_Witness ==
    /\ pc = "print"
    /\ input \in {"a", "A"}
    /\ curX = 0
    /\ screen.cells[curY][0] \in {"block", "revX", "revO"}

\* C7: raw mode and the hidden cursor are released on every path by which
\* the process exits, an input-read failure included.
C7_TerminalRestoredOnExit ==
    pc = "exited" => (~raw /\ ~cursorHidden)

\* C8: moveCount equals the number of non-Empty cells in every state.
C8_MoveCountIsMarkCount ==
    moveCount = MarkCount(grid)

\* C9: currPlayer alternates strictly starting from X: it is X iff the
\* number of marks is even, X marks minus O marks is 0 or 1, and it changes
\* only on a successful placement.
C9_StrictAlternation ==
    /\ [](/\ currPlayer \in Marks
          /\ currPlayer = PlayerX <=> MarkCount(grid) % 2 = 0
          /\ CountOf(grid, PlayerX) - CountOf(grid, PlayerO) \in {0, 1})
    /\ [][currPlayer' # currPlayer
            => /\ pc = "process"
               /\ input = " "
               /\ grid[curY][curX] = Empty
               /\ MarkCount(grid') = MarkCount(grid) + 1]_vars

C9_Witness ==
    /\ pc = "read"
    /\ MarkCount(grid) = 5
    /\ currPlayer = PlayerO
    /\ CountOf(grid, PlayerX) = 3

\* C10: a marked cell keeps its mark over every step.
C10_MarksPersist ==
    [][\A c \in Cells :
          grid[c[1]][c[2]] # Empty => grid'[c[1]][c[2]] = grid[c[1]][c[2]]]_vars

\* a placement attempted on a cell holding the opponent's mark
C10_Witness ==
    /\ pc = "print"
    /\ input = " "
    /\ ~placed
    /\ banner = "Cell already taken!"
    /\ grid[curY][curX] = otherPlayer(currPlayer)

----------------------------------------------------------------------------
TerminalBanners == {"Exiting...", "wins!", "Draw!"}
FatalBanners == {"Error configuring terminal", "Error reading input"}
NoOpInputs == Inputs \ (MoveKeys \cup {" ", "q"})
CursorCells == {"block", "revX", "revO"}

\* the screen scr is a drawing of the board g with cursor (cx, cy), p to move
Shows(scr, g, cx, cy, p) ==
    /\ scr.player = p
    /\ DOMAIN scr.cells = Rows
    /\ \A y \in Rows : \A x \in Cols :
          scr.cells[y][x] =
             IF g[y][x] = Empty
                THEN (IF <<x, y>> = <<cx, cy>> THEN "block" ELSE " ")
                ELSE (IF <<x, y>> = <<cx, cy>> THEN "rev" ELSE "") \o g[y][x]

\* the full board X,O,X / O,X,O / O,X,O
DrawBoard ==
    [y \in Rows |-> [x \in Cols |->
        <<<<PlayerX, PlayerO, PlayerX>>,
          <<PlayerO, PlayerX, PlayerO>>,
          <<PlayerO, PlayerX, PlayerO>>>>[y + 1][x + 1]]]

\* C11: Quit, Win and Draw are terminal: once evalBoardState has printed
\* one of them the loop is over, no rune is read or processed any more and
\* the grid, the cursor and currPlayer never change again; the loop reads
\* another rune only after Continue.
C11_TerminalOutcomes ==
    [][/\ (banner \in TerminalBanners)
            => /\ pc \in {"return", "exited"}
               /\ pc' \in {"return", "exited"}
               /\ UNCHANGED <<grid, curX, curY, currPlayer, input>>
       /\ (pc = "eval")
            => /\ pc' = "read" <=> /\ input # "q"
                                   /\ ~HasLine(grid)
                                   /\ ~NoEmptyCell(grid)
               /\ pc' # "read" => (pc' = "return" /\ banner' \in TerminalBanners)
       /\ (input' # input \/ pc' = "process")
            => (pc = "read" /\ banner \notin TerminalBanners)]_vars

C11_Witness ==
    /\ pc = "exited"
    /\ banner = "Exiting..."
    /\ exitCode = 0
    /\ MarkCount(grid) >= 2

\* C12 as claimed: exit status 0 after Quit, Win or Draw, and a non-zero
\* status only if terminal setup failed.
C12_NonZeroOnlyOnSetupFailure ==
    pc = "exited"
        => /\ banner \in TerminalBanners => exitCode = 0
           /\ exitCode # 0 => banner = "Error configuring terminal"

\* C12 as amended: exit status 0 exactly when the game ended by Quit, Win or
\* Draw; status 1 exactly when terminal setup failed or a read of the
\* input failed.
C12_ExitStatus ==
    pc = "exited"
        => /\ exitCode \in {0, 1}
           /\ exitCode = 0 <=> banner \in TerminalBanners
           /\ exitCode = 1 <=> banner \in FatalBanners

C12_Witness ==
    /\ pc = "exited"
    /\ banner = "Error reading input"
    /\ exitCode = 1
    /\ MarkCount(grid) >= 1

\* C13: a rune outside w/W a/A s/S d/D, space and 'q' ('Q' included) leaves
\* the grid, the cursor, currPlayer and moveCount unchanged, is followed by
\* a render and an evaluation, and the evaluation continues the game.
C13_OtherRunesNoOp ==
    [][/\ (pc = "process" /\ input \in NoOpInputs)
            => /\ UNCHANGED <<grid, curX, curY, currPlayer, moveCount>>
               /\ pc' = "print"
       /\ (pc = "print" /\ input \in NoOpInputs)
            => /\ pc' = "eval"
               /\ renders' = 1
               /\ Shows(screen', grid, curX, curY, currPlayer)
       /\ (pc = "eval" /\ input \in NoOpInputs)
            => /\ pc' = "read"
               /\ banner' = ""]_vars

C13_Witness ==
    /\ pc = "read"
    /\ input = "Q"
    /\ renders = 1
    /\ MarkCount(grid) = 4

\* C14: a cursor-move rune changes only the cursor, by one step on its own
\* axis and not past an edge (no wraparound), upper and lower case alike;
\* the grid, currPlayer and moveCount are unchanged.
C14_CursorMove ==
    [][(pc = "process" /\ input \in MoveKeys)
        => /\ input \in {"w", "W"}
                => (curY' = (IF curY = 0 THEN 0 ELSE curY - 1) /\ curX' = curX)
           /\ input \in {"s", "S"}
                => /\ curY' = (IF curY = height - 1 THEN curY ELSE curY + 1)
                   /\ curX' = curX
           /\ input \in {"a", "A"}
                => (curX' = (IF curX = 0 THEN 0 ELSE curX - 1) /\ curY' = curY)
           /\ input \in {"d", "D"}
                => /\ curX' = (IF curX = width - 1 THEN curX ELSE curX + 1)
                   /\ curY' = curY
           /\ UNCHANGED <<grid, currPlayer, moveCount>>]_vars

\* a down move processed while the cursor was drawn in the last row
C14_Witness ==
    /\ pc = "print"
    /\ input = "S"
    /\ curY = height - 1
    /\ \E x \in Cols : screen.cells[height - 1][x] \in CursorCells

\* C15: isFull is true iff no cell is Empty, for every assignment of the
\* cells; on a full board without a complete line isFull is true,
\* checkForWin is false and the outcome is Draw.
C15_IsFullIffNoEmpty ==
    /\ isFull(grid) <=> NoEmptyCell(grid)
    /\ (NoEmptyCell(grid) /\ ~HasLine(grid))
          => /\ isFull(grid)
             /\ ~checkForWin(grid)
             /\ (pc # "eval" /\ input # "q")
                   => (banner = "Draw!" /\ pc = "return")

C15_Witness ==
    /\ grid = DrawBoard
    /\ input = " "
    /\ pc = "return"
    /\ banner = "Draw!"

\* C16: each rune is handled in the order processInput, printState,
\* evalBoardState before the next one is read: it is followed by exactly
\* one render, of the state that processInput left, and evalBoardState
\* runs on that same state.
C16_MutateRenderEvaluate ==
    /\ [](pc \in {"process", "print"} => renders = 0)
    /\ [](pc \in {"eval", "read", "return"}
            => /\ renders = 1
               /\ Shows(screen, grid, curX, curY, currPlayer))
    /\ [][/\ pc = "process" => pc' = "print"
          /\ pc = "print" => (pc' = "eval" /\ UNCHANGED boardVars)
          /\ pc = "eval" => /\ pc' \in {"read", "return"}
                            /\ UNCHANGED <<boardVars, screen, input>>
          /\ pc' = "process" => pc = "read"]_vars

C16_Witness ==
    /\ pc = "return"
    /\ renders = 1
    /\ banner = "wins!"
    /\ winner = PlayerX
    /\ screen.cells[curY][curX] = "revX"

C18_WaitingBoardOpen ==
    /\ pc = "read" => (~HasLine(grid) /\ ~NoEmptyCell(grid))
    /\ ~(OwnsLine(grid, PlayerX) /\ OwnsLine(grid, PlayerO))

C18_Witness ==
    /\ pc = "read"
    /\ MarkCount(grid) = width * height - 1
    /\ ~HasLine(grid)

\* C19: only a successful placement or 'q' ends the game: a cursor move, a
\* no-op rune and a rejected placement are evaluated as Continue, and Win
\* or Draw is declared only by the evaluation that follows a placement.
C19_OnlyPlacementOrQuitEnds ==
    [][/\ (pc = "eval" /\ (input \in MoveKeys \cup NoOpInputs
                             \/ (input = " " /\ ~placed)))
            => (pc' = "read" /\ banner' = "")
       /\ (banner' \in {"wins!", "Draw!"} /\ banner' # banner)
            => (pc = "eval" /\ input = " " /\ placed)
       /\ (pc = "eval" /\ pc' = "return")
            => (input = "q" \/ (input = " " /\ placed))]_vars

C19_Witness ==
    /\ pc = "return"
    /\ banner = "wins!"
    /\ placed
    /\ input = " "
    /\ MarkCount(grid) = 5

\* C20: a run has at most width*height successful placements: the loop
\* never waits on a full board, and the evaluation after the placement
\* that fills the last Empty cell is Win or Draw, never Continue.
C20_AtMostAllCells ==
    /\ [](pc \in {"read", "process"} => MarkCount(grid) < width * height)
    /\ [][(pc = "eval" /\ placed /\ NoEmptyCell(grid))
            => /\ pc' = "return"
               /\ banner' \in {"wins!", "Draw!"}]_vars

C20_Witness ==
    /\ pc = "exited"
    /\ placed
    /\ NoEmptyCell(grid)
    /\ banner = "Draw!"
    /\ exitCode = 0

====
